---- MODULE Spec2Model ----
(***************************************************************************)
(* Model of src/main.rs: a CodeGen that emits the IR of a function "sum"   *)
(* through an instruction builder, resolves it through a JIT execution     *)
(* engine, and a driver (main) that calls the resolved function.           *)
(*                                                                         *)
(* The IR is kept as data: a Module is a sequence of functions, a function *)
(* has an entry block, a block is a sequence of instructions, and the      *)
(* result of instruction n of a block is the value Inst(n).  Calling a     *)
(* resolved function runs its block over a flat memory (Exec).             *)
(* f64 values are modelled by small integers, on which f64 addition is     *)
(* exact.  The function of jit_compile_sum is built but never run: main    *)
(* does not call it.                                                       *)
(***************************************************************************)
EXTENDS Integers, Sequences, FiniteSets, TLC

\* `let width = 4` of CodeGen::sum
width == 4

\* number of formal parameters of both signatures (three i64 / three f64*)
NumParams == 3

\* largest scalar a caller puts into a memory cell
MaxVal == 1

\* how many CodeGen methods a client calls on one CodeGen
MaxCalls == 2

Vals == 0..MaxVal
Lanes == 0..(width - 1)

VARIABLES
  pc,         \* position of main (or of the client of CodeGen)
  mpc,        \* position inside the running CodeGen method, "idle" if none
  context,    \* TRUE once Context::create() has returned
  module,     \* the Module: sequence of functions, <<>> once created
  hasModule,  \* TRUE once context.create_module has returned
  engine,     \* TRUE once the execution engine is bound to the module
  builder,    \* index in module of the function the builder is positioned in (0: none)
  function,   \* local `function` of the running method (index in module)
  params,     \* locals x, y, z of the running method
  i,          \* loop counter of the running loop (number of iterations done)
  x_vals, y_vals,   \* locals of sum: sequences of <<idx, value>>
  z_x, z_y,   \* locals of sum: the vectors under construction
  add,        \* local `add` of sum / `sum` of jit_compile_sum
  add_elems,  \* local of sum
  a,          \* local `a` of sum: None or Some(value)
  ordX, ordY, ordE, \* iteration orders of the insert and extract loops
  handles,    \* what the method calls returned so far, in call order
  mem, mem0,  \* the memory, and the memory as it was before the last call
  px, py, pz, \* the pointers of the last call
  ret,        \* what the last call returned
  prev        \* out array and result of the call before a repeated call

locals == <<function, params, i, x_vals, y_vals, z_x, z_y, add, add_elems, a>>
orders == <<ordX, ordY, ordE>>
callst == <<mem, mem0, px, py, pz, ret, prev>>
vars == <<pc, mpc, context, module, hasModule, engine, builder, locals, orders,
          handles, callst>>

----------------------------------------------------------------------------
(* Values of the IR *)

Const(c) == [k |-> "const", v |-> c]
Inst(n) == [k |-> "inst", v |-> n]
Param(n) == [k |-> "param", v |-> n]
ZeroVec == [k |-> "zero", v |-> width]
NoVal == [k |-> "none", v |-> 0]

Instr(op, p, q, r) == [op |-> op, a |-> p, b |-> q, c |-> r]

IsTerminator(ins) == ins.op = "ret"

\* the Option<JitFunction<..>> a method returns: fn = 0 is None, otherwise
\* the function the address belongs to; by is the method, which fixes the
\* signature the JitFunction is typed with
Handle(by, f) == [by |-> by, fn |-> f]

\* None / Some(v) of Option
None == [some |-> FALSE, val |-> NoVal]
Some(v) == [some |-> TRUE, val |-> v]

Identity == [k \in 1..width |-> k]
Perms == {p \in [1..width -> 1..width] : \A j, l \in 1..width : p[j] = p[l] => j = l}

----------------------------------------------------------------------------
(* Module and builder *)

SumName == [base |-> "sum", suffix |-> 0]

HasName(m, nm) == \E f \in 1..Len(m) : m[f].name = nm

\* a name already taken gets a numeric suffix, as LLVM's symbol table does
UniqueName(m, base) ==
  [base |-> base, suffix |-> Cardinality({f \in 1..Len(m) : m[f].name.base = base})]

\* Module::add_function(name, fn_type, None): the new function's value
AddFunction(m, base, sig) ==
  Append(m, [name |-> UniqueName(m, base), sig |-> sig, nparams |-> NumParams,
             entry |-> FALSE, body |-> <<>>])

\* FunctionValue::get_nth_param(n)
GetNthParam(m, f, n) == IF n < m[f].nparams THEN Some(Param(n)) ELSE None

\* the builder appends instructions at the end of the block it is positioned in
Emit(m, f, instrs) == [m EXCEPT ![f].body = m[f].body \o instrs]

\* variant: the engine hands out the function declared last, whatever its name
GetFunctionLatest(m, bound, nm) == IF bound /\ Len(m) > 0 THEN Len(m) ELSE 0

\* ExecutionEngine::get_function(name).ok(): index of the function of that
\* name, 0 for None
GetFunction(m, bound, nm) ==
  IF bound /\ HasName(m, nm)
  THEN CHOOSE f \in 1..Len(m) : m[f].name = nm
  ELSE 0

----------------------------------------------------------------------------
(* Running a compiled function: the IR semantics of its entry block *)

OperandVal(o, env, args) ==
  CASE o.k = "inst" -> env[o.v]
    [] o.k = "param" -> args[o.v + 1]
    [] o.k = "const" -> o.v
    [] o.k = "zero" -> [j \in 1..width |-> 0]

\* the value an instruction yields (0 for a store, which yields none)
InstrVal(ins, env, args, m) ==
  LET p == OperandVal(ins.a, env, args)
      q == OperandVal(ins.b, env, args)
      r == OperandVal(ins.c, env, args)
  IN CASE ins.op = "gep" -> p + q
       [] ins.op = "load" -> m[p + 1]
       [] ins.op = "insertelement" -> [p EXCEPT ![r + 1] = q]
       [] ins.op = "fadd" -> [j \in 1..width |-> p[j] + q[j]]
       [] ins.op = "extractelement" -> p[q + 1]
       [] ins.op = "store" -> 0

\* the memory after an instruction
InstrMem(ins, env, args, m) ==
  IF ins.op = "store"
  THEN [m EXCEPT ![OperandVal(ins.a, env, args) + 1] = OperandVal(ins.b, env, args)]
  ELSE m

RECURSIVE Run(_, _, _, _, _)
Run(body, n, env, m, args) ==
  IF n > Len(body)
  THEN [mem |-> m, ret |-> 0]
  ELSE LET ins == body[n]
       IN IF IsTerminator(ins)
          THEN [mem |-> m, ret |-> OperandVal(ins.a, env, args)]
          ELSE Run(body, n + 1, Append(env, InstrVal(ins, env, args, m)),
                   InstrMem(ins, env, args, m), args)

\* JitFunction::call(x, y, z) on the function of index f
Exec(m, f, args, memory) == Run(m[f].body, 1, <<>>, memory, args)

\* the W cells a pointer refers to
Arr(memory, p) == [j \in 1..width |-> memory[p + j]]

----------------------------------------------------------------------------
(* main, lines 110-118: construction *)

ContextCreate ==
  /\ pc = "m110"
  /\ context' = TRUE
  /\ pc' = "m111"
  /\ UNCHANGED <<mpc, module, hasModule, engine, builder, locals, orders, handles, callst>>

CreateModule ==
  /\ pc = "m111"
  /\ context
  /\ hasModule' = TRUE
  /\ module' = <<>>
  /\ pc' = "m112"
  /\ UNCHANGED <<mpc, context, engine, builder, locals, orders, handles, callst>>

\* variant: main goes on without an engine bound to the module
CreateEngineUnbound ==
  /\ pc = "m112"
  /\ hasModule
  /\ engine' = FALSE
  /\ pc' = "m113"
  /\ UNCHANGED <<mpc, context, module, hasModule, builder, locals, orders, handles, callst>>

\* module.create_jit_execution_engine(..)? : an Err leaves main
CreateEngine ==
  /\ pc = "m112"
  /\ hasModule
  /\ \E ok \in BOOLEAN :
       /\ engine' = ok
       /\ pc' = IF ok THEN "m113" ELSE "err"
  /\ UNCHANGED <<mpc, context, module, hasModule, builder, locals, orders, handles, callst>>

\* CodeGen { context, module, builder: context.create_builder(), execution_engine }
NewCodeGen ==
  /\ pc = "m113"
  /\ builder' = 0
  /\ pc' = "m123"
  /\ UNCHANGED <<mpc, context, module, hasModule, engine, locals, orders, handles, callst>>

----------------------------------------------------------------------------
(* Steps common to both methods *)

\* self.module.add_function("sum", fn_type, None)
AddFunctionStep(at, sig, next) ==
  /\ mpc = at
  /\ module' = AddFunction(module, "sum", sig)
  /\ function' = Len(module) + 1
  /\ mpc' = next
  /\ UNCHANGED <<pc, context, hasModule, engine, builder, params, i, x_vals, y_vals,
                 z_x, z_y, add, add_elems, a, orders, handles, callst>>

\* self.context.append_basic_block(function, "entry")
AppendBasicBlock(at, next) ==
  /\ mpc = at
  /\ module' = [module EXCEPT ![function].entry = TRUE]
  /\ mpc' = next
  /\ UNCHANGED <<pc, context, hasModule, engine, builder, locals, orders, handles, callst>>

\* self.builder.position_at_end(basic_block)
PositionAtEnd(at, next) ==
  /\ mpc = at
  /\ module[function].entry
  /\ builder' = function
  /\ mpc' = next
  /\ UNCHANGED <<pc, context, module, hasModule, engine, locals, orders, handles, callst>>

\* the three function.get_nth_param(n)? : a None returns None from the method
GetParams(at, by, next) ==
  /\ mpc = at
  /\ LET got == [n \in 1..3 |-> GetNthParam(module, function, n - 1)]
     IN IF \A n \in 1..3 : got[n].some
        THEN /\ params' = [n \in 1..3 |-> got[n].val]
             /\ mpc' = next
             /\ UNCHANGED handles
        ELSE /\ handles' = Append(handles, Handle(by, 0))
             /\ mpc' = "idle"
             /\ UNCHANGED params
  /\ UNCHANGED <<pc, context, module, hasModule, engine, builder, function, i, x_vals,
                 y_vals, z_x, z_y, add, add_elems, a, orders, callst>>

\* unsafe { self.execution_engine.get_function("sum").ok() }
Resolve(at, by) ==
  /\ mpc = at
  /\ handles' = Append(handles, Handle(by, GetFunction(module, engine, SumName)))
  /\ mpc' = "idle"
  /\ UNCHANGED <<pc, context, module, hasModule, engine, builder, locals, orders, callst>>

----------------------------------------------------------------------------
(* CodeGen::jit_compile_sum, lines 23-41 *)

JitAddFunction == AddFunctionStep("L26", "i64", "L27")
JitAppendBlock == AppendBasicBlock("L27", "L29")
JitPosition == PositionAtEnd("L29", "L31")
JitParams == GetParams("L31", "jit", "L35")

\* let sum = build_int_add(x, y); let sum = build_int_add(sum, z)
JitIntAdd ==
  /\ mpc \in {"L35", "L36"}
  /\ LET n == Len(module[builder].body)
         lhs == IF mpc = "L35" THEN params[1] ELSE add
         rhs == IF mpc = "L35" THEN params[2] ELSE params[3]
     IN /\ module' = Emit(module, builder, <<Instr("add", lhs, rhs, NoVal)>>)
        /\ add' = Inst(n + 1)
  /\ mpc' = IF mpc = "L35" THEN "L36" ELSE "L38"
  /\ UNCHANGED <<pc, context, hasModule, engine, builder, function, params, i, x_vals,
                 y_vals, z_x, z_y, add_elems, a, orders, handles, callst>>

\* self.builder.build_return(Some(&sum))
JitReturn ==
  /\ mpc = "L38"
  /\ module' = Emit(module, builder, <<Instr("ret", add, NoVal, NoVal)>>)
  /\ mpc' = "L40"
  /\ UNCHANGED <<pc, context, hasModule, engine, builder, locals, orders, handles, callst>>

JitResolve == Resolve("L40", "jit")

----------------------------------------------------------------------------
(* CodeGen::sum, lines 43-106 *)

SumAddFunction == AddFunctionStep("L54", "ptr", "L55")
SumAppendBlock == AppendBasicBlock("L55", "L57")
SumPosition == PositionAtEnd("L57", "L59")
SumParams == GetParams("L59", "sum", "L63")

\* let mut x_vals = vec![]; let mut y_vals = vec![];
SumInitVals ==
  /\ mpc = "L63"
  /\ x_vals' = <<>>
  /\ y_vals' = <<>>
  /\ i' = 0
  /\ mpc' = "L65"
  /\ UNCHANGED <<pc, context, module, hasModule, engine, builder, function, params,
                 z_x, z_y, add, add_elems, a, orders, handles, callst>>

\* variant: the y values are read through the output pointer
LoadBaseYOut(ps) == ps[3]

\* the pointer parameter the y values are loaded through
LoadBaseY(ps) == ps[2]

\* one iteration of `for i in 0..width` of lines 65-73
LoadLoop ==
  /\ mpc = "L65"
  /\ i < width
  /\ LET n == Len(module[builder].body)
         idx == Const(i)
     IN /\ module' = Emit(module, builder,
                          << Instr("gep", params[1], idx, NoVal),
                             Instr("load", Inst(n + 1), NoVal, NoVal),
                             Instr("gep", LoadBaseY(params), idx, NoVal),
                             Instr("load", Inst(n + 3), NoVal, NoVal) >>)
        /\ x_vals' = Append(x_vals, <<idx, Inst(n + 2)>>)
        /\ y_vals' = Append(y_vals, <<idx, Inst(n + 4)>>)
  /\ i' = i + 1
  /\ mpc' = IF i + 1 = width THEN "L75" ELSE "L65"
  /\ UNCHANGED <<pc, context, hasModule, engine, builder, function, params,
                 z_x, z_y, add, add_elems, a, orders, handles, callst>>

\* let mut z_x = f64_4_ty.const_zero();
InitZx ==
  /\ mpc = "L75"
  /\ z_x' = ZeroVec
  /\ i' = 0
  /\ mpc' = "L76"
  /\ UNCHANGED <<pc, context, module, hasModule, engine, builder, function, params,
                 x_vals, y_vals, z_y, add, add_elems, a, orders, handles, callst>>

\* variant: the lane is the position in the loop, not the idx of the pair
InsertLanePos(pair, k) == Const(k)

\* variant: every insertion writes lane 0
InsertLaneZero(pair, k) == Const(0)

\* the lane an insertion writes: the idx that was pushed with the value
InsertLane(pair, k) == pair[1]

\* one iteration of `for (i, x) in x_vals`, lines 76-78
InsertX ==
  /\ mpc = "L76"
  /\ i < Len(x_vals)
  /\ LET n == Len(module[builder].body)
         pair == x_vals[ordX[i + 1]]
     IN /\ module' = Emit(module, builder,
                          <<Instr("insertelement", z_x, pair[2], InsertLane(pair, i))>>)
        /\ z_x' = Inst(n + 1)
  /\ i' = i + 1
  /\ mpc' = IF i + 1 = Len(x_vals) THEN "L80" ELSE "L76"
  /\ UNCHANGED <<pc, context, hasModule, engine, builder, function, params,
                 x_vals, y_vals, z_y, add, add_elems, a, orders, handles, callst>>

\* let mut z_y = f64_4_ty.const_zero();
InitZy ==
  /\ mpc = "L80"
  /\ z_y' = ZeroVec
  /\ i' = 0
  /\ mpc' = "L81"
  /\ UNCHANGED <<pc, context, module, hasModule, engine, builder, function, params,
                 x_vals, y_vals, z_x, add, add_elems, a, orders, handles, callst>>

\* one iteration of `for (i, x) in y_vals`, lines 81-83
InsertY ==
  /\ mpc = "L81"
  /\ i < Len(y_vals)
  /\ LET n == Len(module[builder].body)
         pair == y_vals[ordY[i + 1]]
     IN /\ module' = Emit(module, builder,
                          <<Instr("insertelement", z_y, pair[2], InsertLane(pair, i))>>)
        /\ z_y' = Inst(n + 1)
  /\ i' = i + 1
  /\ mpc' = IF i + 1 = Len(y_vals) THEN "L85" ELSE "L81"
  /\ UNCHANGED <<pc, context, hasModule, engine, builder, function, params,
                 x_vals, y_vals, z_x, add, add_elems, a, orders, handles, callst>>

\* variant: the vector add takes z_x twice
AddOperandsSame(vx, vy) == <<vx, vx>>

\* the operands of the vector add
AddOperands(vx, vy) == <<vx, vy>>

\* let add = build_float_add(z_x, z_y); let mut add_elems = vec![]; let mut a = None;
\* (add_elems is kept as one slot per lane, empty slots holding NoVal)
VecAdd ==
  /\ mpc = "L85"
  /\ LET n == Len(module[builder].body)
         ops == AddOperands(z_x, z_y)
     IN /\ module' = Emit(module, builder, <<Instr("fadd", ops[1], ops[2], NoVal)>>)
        /\ add' = Inst(n + 1)
  /\ add_elems' = [l \in 1..width |-> NoVal]
  /\ a' = None
  /\ i' = 0
  /\ mpc' = "L89"
  /\ UNCHANGED <<pc, context, hasModule, engine, builder, function, params,
                 x_vals, y_vals, z_x, z_y, orders, handles, callst>>

\* one iteration of `for i in 0..width` of lines 89-94; add_elems[l + 1] is
\* the value extracted from lane l (with the source's order 0..width-1 this
\* is add_elems.push(val))
ExtractLoop ==
  /\ mpc = "L89"
  /\ i < width
  /\ LET n == Len(module[builder].body)
         lane == ordE[i + 1] - 1
     IN /\ module' = Emit(module, builder,
                          <<Instr("extractelement", add, Const(lane), NoVal)>>)
        /\ a' = Some(Inst(n + 1))
        /\ add_elems' = [add_elems EXCEPT ![lane + 1] = Inst(n + 1)]
  /\ i' = IF i + 1 = width THEN 0 ELSE i + 1
  /\ mpc' = IF i + 1 = width THEN "L96" ELSE "L89"
  /\ UNCHANGED <<pc, context, hasModule, engine, builder, function, params,
                 x_vals, y_vals, z_x, z_y, add, orders, handles, callst>>

\* variant: the stores go through the first input pointer
StoreBaseX(ps) == ps[1]

\* the pointer parameter the stores go through
StoreBase(ps) == ps[3]

\* one iteration of `for (i, e) in add_elems.into_iter().enumerate()`, lines 96-100
StoreLoop ==
  /\ mpc = "L96"
  /\ i < Len(add_elems)
  /\ LET n == Len(module[builder].body)
     IN module' = Emit(module, builder,
                       << Instr("gep", StoreBase(params), Const(i), NoVal),
                          Instr("store", Inst(n + 1), add_elems[i + 1], NoVal) >>)
  /\ i' = i + 1
  /\ mpc' = IF i + 1 = Len(add_elems) THEN "L102" ELSE "L96"
  /\ UNCHANGED <<pc, context, hasModule, engine, builder, function, params,
                 x_vals, y_vals, z_x, z_y, add, add_elems, a, orders, handles, callst>>

\* variant: the return instruction is not emitted
SumReturnMissing ==
  /\ mpc = "L102"
  /\ mpc' = "L105"
  /\ UNCHANGED <<pc, context, module, hasModule, engine, builder, locals, orders, handles, callst>>

\* self.builder.build_return(Some(&a.unwrap())); self.module.print_to_stderr();
SumReturn ==
  /\ mpc = "L102"
  /\ IF a.some
     THEN /\ module' = Emit(module, builder, <<Instr("ret", a.val, NoVal, NoVal)>>)
          /\ mpc' = "L105"
     ELSE /\ mpc' = "panic"
          /\ UNCHANGED module
  /\ UNCHANGED <<pc, context, hasModule, engine, builder, locals, orders, handles, callst>>

SumResolve == Resolve("L105", "sum")

----------------------------------------------------------------------------
(* main, lines 123-137 *)

\* codegen.sum()
MainSum ==
  /\ pc = "m123"
  /\ mpc = "idle"
  /\ mpc' = "L54"
  /\ pc' = "in123"
  /\ UNCHANGED <<context, module, hasModule, engine, builder, locals, orders, handles, callst>>

\* .ok_or("Unable to JIT compile `sum`")?
MainOkOr ==
  /\ pc = "in123"
  /\ mpc = "idle"
  /\ pc' = IF handles[Len(handles)].fn = 0 THEN "err" ELSE "m125"
  /\ UNCHANGED <<mpc, context, module, hasModule, engine, builder, locals, orders, handles, callst>>

\* the effect of sum2.call(x, y, z) on the call state
CallEffect(f, memory, x, y, z) ==
  LET r == Exec(module, f, <<x, y, z>>, memory)
  IN /\ mem0' = memory
     /\ mem' = r.mem
     /\ ret' = r.ret
     /\ px' = x
     /\ py' = y
     /\ pz' = z

\* let x = [1,2,3,4]; let y = [1,2,3,4]; let mut z = y; sum2.call(..)
MainCall ==
  /\ pc = "m125"
  /\ CallEffect(handles[1].fn, <<1, 2, 3, 4>> \o <<1, 2, 3, 4>> \o <<1, 2, 3, 4>>,
                0, width, 2 * width)
  /\ pc' = "m131"
  /\ UNCHANGED <<mpc, context, module, hasModule, engine, builder, locals, orders, handles, prev>>

\* the four assert_eq! of lines 131-134
MainAssert ==
  /\ pc = "m131"
  /\ pc' = IF Arr(mem, pz) = <<2, 4, 6, 8>> THEN "done" ELSE "panic"
  /\ UNCHANGED <<mpc, context, module, hasModule, engine, builder, locals, orders, handles, callst>>

----------------------------------------------------------------------------
(* Any caller of the callable sum returns: pointers to width valid cells *)

MemSize == 3 * width

\* <<x, y, z>>: three separate arrays, out = X, out = Y, out across X and Y
Layouts ==
  { <<0, width, 2 * width>>, <<0, width, 0>>, <<0, width, width>>,
    <<0, width, width \div 2>> }

\* what the third array holds: anything where it is the output buffer
Fills(lay) == IF lay[3] = 2 * width THEN Vals ELSE {0}

Disjoint(p, q) == p + width <= q \/ q + width <= p

Call ==
  /\ pc = "m125"
  /\ \E xs \in [1..width -> Vals], ys \in [1..width -> Vals], lay \in Layouts :
     \E f \in Fills(lay) :
       CallEffect(handles[1].fn, xs \o ys \o [j \in 1..width |-> f],
                  lay[1], lay[2], lay[3])
  /\ pc' = "called"
  /\ UNCHANGED <<mpc, context, module, hasModule, engine, builder, locals, orders, handles, prev>>

\* the same call again, on the same inputs and a freshly zeroed output buffer
Recall ==
  /\ pc = "called"
  /\ Disjoint(pz, px) /\ Disjoint(pz, py)
  /\ prev' = [out |-> Arr(mem, pz), ret |-> ret]
  /\ CallEffect(handles[1].fn,
                [j \in 1..MemSize |-> IF j - 1 \in pz..(pz + width - 1) THEN 0 ELSE mem[j]],
                px, py, pz)
  /\ pc' = "recalled"
  /\ UNCHANGED <<mpc, context, module, hasModule, engine, builder, locals, orders, handles>>

----------------------------------------------------------------------------
(* A client that calls the methods of one CodeGen in any order *)

ApiJit ==
  /\ pc = "m123"
  /\ mpc = "idle"
  /\ Len(handles) < MaxCalls
  /\ mpc' = "L26"
  /\ UNCHANGED <<pc, context, module, hasModule, engine, builder, locals, orders, handles, callst>>

ApiSum ==
  /\ pc = "m123"
  /\ mpc = "idle"
  /\ Len(handles) < MaxCalls
  /\ mpc' = "L54"
  /\ UNCHANGED <<pc, context, module, hasModule, engine, builder, locals, orders, handles, callst>>

----------------------------------------------------------------------------
(* Specifications *)

InitBut ==
  /\ pc = "m110"
  /\ mpc = "idle"
  /\ context = FALSE
  /\ module = <<>>
  /\ hasModule = FALSE
  /\ engine = FALSE
  /\ builder = 0
  /\ function = 0
  /\ params = <<>>
  /\ i = 0
  /\ x_vals = <<>>
  /\ y_vals = <<>>
  /\ z_x = NoVal
  /\ z_y = NoVal
  /\ add = NoVal
  /\ add_elems = <<>>
  /\ a = None
  /\ handles = <<>>
  /\ mem = <<>>
  /\ mem0 = <<>>
  /\ px = 0
  /\ py = 0
  /\ pz = 0
  /\ ret = 0
  /\ prev = [out |-> <<>>, ret |-> 0]

\* the loops run in the order the source gives them
Init ==
  /\ InitBut
  /\ ordX = Identity
  /\ ordY = Identity
  /\ ordE = Identity

Construct == ContextCreate \/ CreateModule \/ CreateEngine \/ NewCodeGen

SumSteps ==
  \/ SumAddFunction \/ SumAppendBlock \/ SumPosition \/ SumParams \/ SumInitVals
  \/ LoadLoop \/ InitZx \/ InsertX \/ InitZy \/ InsertY \/ VecAdd
  \/ ExtractLoop \/ StoreLoop \/ SumReturn \/ SumResolve

JitSteps ==
  \/ JitAddFunction \/ JitAppendBlock \/ JitPosition \/ JitParams
  \/ JitIntAdd \/ JitReturn \/ JitResolve

\* main as written, followed by any valid use of the callable
Next ==
  \/ Construct \/ MainSum \/ SumSteps \/ MainOkOr
  \/ MainCall \/ MainAssert \/ Call \/ Recall

Spec == Init /\ [][Next]_vars

\* one CodeGen whose methods a client calls in any order
NextApi == Construct \/ ApiJit \/ ApiSum \/ JitSteps \/ SumSteps

SpecApi == Init /\ [][NextApi]_vars

\* main with the insert and extract loops run in any order
InitReorder ==
  /\ InitBut
  /\ ordX \in Perms
  /\ ordY \in Perms
  /\ ordE \in Perms

NextReorder == Construct \/ MainSum \/ SumSteps \/ MainOkOr \/ MainCall \/ MainAssert

SpecReorder == InitReorder /\ [][NextReorder]_vars

----------------------------------------------------------------------------
(* Properties *)

\* the function main (or the caller) holds a callable for
Called == pc \in {"m131", "done", "called", "recalled"}

OutIsSum ==
  \A j \in 1..width : mem[pz + j] = mem0[px + j] + mem0[py + j]

\* C1: after call(X, Y, out) of the function sum built, out[i] = X[i] + Y[i]
\* for every lane i, whatever out held before, and the value returned is
\* out[width - 1]; main's call on [1,2,3,4] twice leaves [2,4,6,8], returns 8
\* and passes its assertions.
C1_SumContract ==
  /\ Called => OutIsSum /\ ret = mem[pz + width]
  /\ pc \in {"m131", "done"} => Arr(mem, pz) = <<2, 4, 6, 8>> /\ ret = 8
  /\ pc # "panic" /\ mpc # "panic"

C1_Witness ==
  /\ pc = "called"
  /\ Disjoint(px, py) /\ Disjoint(pz, px) /\ Disjoint(pz, py)
  /\ Arr(mem0, pz) = <<1, 1, 1, 1>>
  /\ Arr(mem, pz) = <<1, 0, 2, 1>>
  /\ ret = 1

C3_DuplicateDeclarationIsNone ==
  \A k \in 1..Len(handles) :
    (k <= Len(module) /\ module[k].name.suffix # 0) => handles[k].fn = 0

\* the entry block of function f holds exactly one terminator, its last
\* instruction
Terminated(f) ==
  LET body == module[f].body
  IN /\ module[f].entry
     /\ body # <<>>
     /\ \A n \in 1..Len(body) : IsTerminator(body[n]) <=> n = Len(body)

\* C4 (as claimed): the execution engine is bound to the module only after
\* the function's IR has been emitted into it.
C4_EngineAfterEmission ==
  engine => Len(module) > 0 /\ Terminated(1)

\* C4 (amended): the module is created from the context, the execution
\* engine is bound to the module while it is still empty, the code generator
\* populates the module only after that, and a callable is resolved only once
\* the function's block is terminated.
C4_Lifecycle ==
  /\ hasModule => context
  /\ engine => hasModule
  /\ module # <<>> => engine
  /\ builder # 0 => module # <<>>
  /\ handles # <<>> => Len(module) > 0 /\ Terminated(1)

C4_Witness ==
  /\ engine
  /\ Len(module) = 1
  /\ mpc = "L85"
  /\ Len(module[1].body) = 6 * width
  /\ handles = <<>>

\* C5: when get_function is called the entry block of the function just
\* built holds exactly one terminator, the return, as its last instruction,
\* and nothing is emitted into a function after it has been resolved.
C5_ResolveAfterEmission ==
  /\ mpc \in {"L40", "L105"} => Terminated(function)
  /\ \A k \in 1..Len(handles) :
       /\ k <= Len(module) => Terminated(k)
       /\ handles[k].fn # 0 => Terminated(handles[k].fn)

C5_Witness ==
  /\ Len(handles) = 2
  /\ handles[2].by = "sum"
  /\ handles[2].fn # 0
  /\ Len(module[2].body) > Len(module[1].body)

\* C6: calling again with the same inputs and a freshly zeroed output
\* buffer gives the same output array and the same return value.
C6_Idempotent ==
  pc = "recalled" => Arr(mem, pz) = prev.out /\ ret = prev.ret

C6_Witness ==
  /\ pc = "recalled"
  /\ px # py
  /\ prev.out = <<1, 2, 0, 1>>
  /\ mem0[pz + 1] = 0
  /\ mem[pz + 2] = 2

RECURSIVE ChainInserts(_, _)
ChainInserts(body, v) ==
  IF v.k = "inst" /\ body[v.v].op = "insertelement"
  THEN Append(ChainInserts(body, body[v.v].a), v.v)
  ELSE <<>>

\* the vector the chain of insertions that ends in v starts from
RECURSIVE ChainBase(_, _)
ChainBase(body, v) ==
  IF v.k = "inst" /\ body[v.v].op = "insertelement"
  THEN ChainBase(body, body[v.v].a)
  ELSE v

\* the value inserted by instruction n is the load from pointer parameter p
\* at the offset of the lane it is inserted at
InsertsLoadOf(body, n, p) ==
  LET val == body[n].b
  IN /\ val.k = "inst"
     /\ body[val.v].op = "load"
     /\ body[val.v].a.k = "inst"
     /\ body[body[val.v].a.v] = Instr("gep", Param(p), body[n].c, NoVal)

\* value v is a zero vector that received exactly one insertion at every
\* lane, each of the value loaded from pointer parameter p at that lane
FullVector(body, v, p) ==
  LET ch == ChainInserts(body, v)
  IN /\ ChainBase(body, v) = ZeroVec
     /\ Len(ch) = width
     /\ \A l \in Lanes : \E n \in 1..Len(ch) : body[ch[n]].c = Const(l)
     /\ \A n \in 1..Len(ch) : InsertsLoadOf(body, ch[n], p)

IsAdd(ins) == ins.op \in {"fadd", "add"}

ConstLane(v) == v.k = "const" /\ v.v \in Lanes

\* C9: the body of sum holds exactly one addition, a vector add of VX and
\* VY, each of which has by then received exactly one insertion at every lane
\* 0..width-1; every insert and extract index is a constant in [0, width).
C9_OneVectorAdd ==
  Len(module) > 0 =>
    LET body == module[1].body
        adds == {n \in 1..Len(body) : IsAdd(body[n])}
    IN /\ Cardinality(adds) <= 1
       /\ Terminated(1) => Cardinality(adds) = 1
       /\ \A n \in adds :
            /\ body[n].op = "fadd"
            /\ FullVector(body, body[n].a, 0)
            /\ FullVector(body, body[n].b, 1)
       /\ \A n \in 1..Len(body) :
            /\ body[n].op = "insertelement" => ConstLane(body[n].c)
            /\ body[n].op = "extractelement" =>
                 ConstLane(body[n].b) /\ body[n].a.k = "inst" /\ body[n].a.v \in adds

C9_Witness ==
  /\ Len(module) = 1
  /\ Terminated(1)
  /\ \E n \in 1..Len(module[1].body) : module[1].body[n].op = "fadd"
  /\ Cardinality({n \in 1..Len(module[1].body) :
                    module[1].body[n].op = "insertelement"}) = 2 * width

\* C10: in the body of sum every load precedes every store and there are
\* 2 * width loads; so a call whose output buffer overlaps X or Y still
\* leaves out[i] = X[i] + Y[i] of the values held before the call, and the
\* memory outside out[0..width) is as it was.
C10_LoadsBeforeStores ==
  /\ Len(module) > 0 =>
       LET body == module[1].body
       IN /\ \A n, q \in 1..Len(body) :
               body[n].op = "load" /\ body[q].op = "store" => n < q
          /\ Terminated(1) =>
               /\ Cardinality({n \in 1..Len(body) : body[n].op = "load"}) = 2 * width
               /\ Cardinality({n \in 1..Len(body) : body[n].op = "store"}) = width
  /\ Called =>
       /\ OutIsSum
       /\ \A c \in 1..Len(mem) :
            c - 1 \notin pz..(pz + width - 1) => mem[c] = mem0[c]

C10_Witness ==
  /\ pc = "called"
  /\ pz = px
  /\ py # px
  /\ Arr(mem0, px) = <<1, 0, 1, 0>>
  /\ Arr(mem, pz) = <<2, 1, 1, 0>>

====
